---------------------------- MODULE Spec2Model ----------------------------
(***************************************************************************)
(* Model of the exploration node of visualnav-transformer:                 *)
(*   deployment/src/explore_apf.py  (variant "apf":  context gate, depth   *)
(*                                   projector, potential-field corrector) *)
(*   deployment/src/explore.py      (variant "plain": no gate, no depth,   *)
(*                                   optional waypoint normalisation)      *)
(*                                                                         *)
(* Units.  Lengths are integers in millimetres (0.05 m = 50, 1e-3 m = 1),  *)
(* times are integers in nanoseconds (rclpy Duration.nanoseconds).         *)
(* Trajectory entries are integers in the network's normalised units; one  *)
(* unit is MAX_V / RATE metres, MmPerUnit millimetres.                      *)
(*                                                                         *)
(* Real numbers that a rotation produces are kept exact: the point         *)
(* <<a, b, n>> stands for (a / sqrt(n), b / sqrt(n)); an unrotated point   *)
(* is <<x, y, 1>>.  An angle is kept as a direction <<c, s>> that stands   *)
(* for atan2(s, c).                                                        *)
(***************************************************************************)
EXTENDS Integers, Sequences, FiniteSets, TLC

VARIABLES
    variant,            \* "apf" (explore_apf.py) or "plain" (explore.py)
    robot,              \* args.robot
    normalize,          \* model_params.get("normalize", False)
    now,                \* self.get_clock().now(), ns
    last_ctx_time,      \* self.last_ctx_time, ns
    context_queue,      \* self.context_queue: deque(maxlen = context_size + 1)
    obstacle_points,    \* self.obstacle_points: None or Array(points)
    spinning,           \* rclpy.spin(node) is still dispatching callbacks
    pc,                 \* position of the timer callback: "idle" or "denoise"
    naction,            \* the timer callback's local naction (the denoising state)
    timesteps,          \* the timesteps the for-loop of the tick has still to apply
    waypoint_pub,       \* messages published on the waypoint topic
    sampled_actions_pub,\* messages published on the sampled-actions topic
    viz_pub,            \* messages published on the visualisation topic
    nframes,            \* history: number of image messages delivered so far
    pushed,             \* history: the frames appended to context_queue, in order
    discarded,          \* history: the frames _image_cb returned on without appending
    obs_frame,          \* history: the frame obstacle_points was computed from
    last_cb,            \* history: what the last callback invocation did
    tick,               \* history: the values of the last tick that published
    call                \* the argument and result of a function applied on its own

vars == << variant, robot, normalize, now, last_ctx_time, context_queue,
           obstacle_points, spinning, pc, naction, timesteps, waypoint_pub,
           sampled_actions_pub, viz_pub, nframes, pushed, discarded, obs_frame,
           last_cb, tick, call >>

---------------------------------------------------------------------------
(* Bounds of the model *)

\* model_params["context_size"]
ContextSize == 1
\* model_params["num_diffusion_iters"]
NumDiffusionIters == 2
\* image messages delivered in one run
MaxFrames == 4
\* ticks that publish in one run
MaxTicks == 1
\* clock advances in one run
MaxAdvances == 4

---------------------------------------------------------------------------
(* Program constants *)

\* self.ctx_dt * 1e9
CtxDtNs == 250000000
\* self.top_view_size = (400, 400)
TopViewW == 400
TopViewH == 400
\* self.top_view_sampling_step
SamplingStep == 5
\* np.maximum(Z_0 - self.safety_margin, 1e-3): 1e-3 m
DepthEps == 1
\* mask ... (Y >= -0.05): -0.05 m
MinY == -50
\* compute_repulsive_force(..., influence_range=1.0): 1.0 m
InfluenceRange == 1000
\* MAX_V / RATE of config/robot.yaml (max_v 0.2 m/s, frame_rate 4 Hz): 0.05 m
MmPerUnit == 50
\* args.waypoint (default 2), 0-based index into a trajectory
WaypointIndex == 2
\* args.num_samples and model_params["len_traj_pred"] of the modelled runs
NumSamples == 2
LenTraj == 3

\* self.obstacle_points is None, or an array of points <<x_local, y_local>>
None == [is_none |-> TRUE, points |-> << >>]

Array(pts) == [is_none |-> FALSE, points |-> pts]

Robots == {"locobot", "locobot2", "robomaster", "turtlebot4"}

\* self.safety_margin, mm
safety_margin(r) ==
    CASE r \in {"locobot", "locobot2"} -> 50
      [] r = "robomaster" -> -100
      [] r = "turtlebot4" -> 200

\* self.proximity_threshold, mm
proximity_threshold(r) ==
    CASE r \in {"locobot", "locobot2"} -> 1000
      [] r = "robomaster" -> 1300
      [] r = "turtlebot4" -> 1400

---------------------------------------------------------------------------
(* Arithmetic helpers *)

Abs(x) == IF x < 0 THEN -x ELSE x

Max(a, b) == IF a >= b THEN a ELSE b

\* np.int32(float): truncation toward zero of a / b, b > 0
TruncDiv(a, b) == IF a >= 0 THEN a \div b ELSE -((-a) \div b)

RECURSIVE Gcd(_, _)
Gcd(a, b) == IF b = 0 THEN a ELSE Gcd(b, a % b)

\* np.where(img_x == x)[0]: the indices of the cells of column x, increasing
ColumnIdxs(cells, x) ==
    LET F[i \in 0..Len(cells)] ==
            IF i = 0 THEN << >>
            ELSE IF cells[i].img_x = x THEN Append(F[i - 1], i) ELSE F[i - 1]
    IN  F[Len(cells)]

---------------------------------------------------------------------------
(* Context buffer: deque(maxlen = context_size + 1).append *)

Capacity == ContextSize + 1

\* faulty variant: a plain list, nothing is evicted
DequeAppendUnbounded(q, x) == Append(q, x)

DequeAppend(q, x) ==
    IF Len(q) < Capacity THEN Append(q, x) ELSE Append(Tail(q), x)

\* _image_cb, the gate: (now - self.last_ctx_time).nanoseconds < self.ctx_dt * 1e9
\* faulty variant: the interval compared in seconds, not nanoseconds
GateClosedSeconds(t, last) == (t - last) * 4 < 1

GateClosed(t, last) == (t - last) < CtxDtNs

---------------------------------------------------------------------------
(* Depth projector *)

\* _image_cb: mask = (Z > 0) & (Z <= self.proximity_threshold) & (Y >= -0.05)
\* a point is <<X, Y, Z>>
Mask(r, p) == p[3] > 0 /\ p[3] <= proximity_threshold(r) /\ p[2] >= MinY

MaskPoints(r, pts) == SelectSeq(pts, LAMBDA p : Mask(r, p))

\* Z = np.maximum(Z_0 - self.safety_margin, 1e-3)
ShiftDepth(r, z0) == Max(z0 - safety_margin(r), DepthEps)

\* img_x = np.int32(top_view_size[0] // 2 + X * top_view_resolution), with
\* top_view_resolution = top_view_size[0] / proximity_threshold pixels per metre
ImgX(r, x) ==
    TruncDiv((TopViewW \div 2) * proximity_threshold(r) + x * TopViewW,
             proximity_threshold(r))

\* img_y = np.int32(top_view_size[1] - Z * top_view_resolution)
ImgY(r, z) ==
    TruncDiv(TopViewH * proximity_threshold(r) - z * TopViewW,
             proximity_threshold(r))

\* valid = (img_x >= 0) & (img_x < W) & (img_y >= 0) & (img_y < H)
ValidPixel(ix, iy) == ix >= 0 /\ ix < TopViewW /\ iy >= 0 /\ iy < TopViewH

\* the in-bounds points as records, in input order
Rasterize(r, pts) ==
    LET shifted == [i \in 1..Len(pts) |->
                      [img_x  |-> ImgX(r, pts[i][1]),
                       img_y  |-> ImgY(r, ShiftDepth(r, pts[i][3])),
                       real_x |-> pts[i][1],
                       real_z |-> ShiftDepth(r, pts[i][3])]]
    IN  SelectSeq(shifted, LAMBDA q : ValidPixel(q.img_x, q.img_y))

\* col_idxs[np.argmin(depth_vals[col_idxs])]: the first index of least depth
\* faulty variant: the first point of the column, whatever its depth
ArgMinDepthFirst(cells, idxs) == idxs[1]

ArgMinDepth(cells, idxs) ==
    LET best[k \in 1..Len(idxs)] ==
            IF k = 1 THEN idxs[1]
            ELSE IF cells[idxs[k]].real_z < cells[best[k - 1]].real_z
                 THEN idxs[k] ELSE best[k - 1]
    IN  best[Len(idxs)]

\* range(0, top_view_size[0], top_view_sampling_step)
SampledColumns == { x \in 0..(TopViewW - 1) : x % SamplingStep = 0 }

\* the loop over the sampled columns: [real_x, real_z] of the closest point of
\* every occupied sampled column, by increasing column
SampleColumns(cells) ==
    LET F[n \in 0..(TopViewW \div SamplingStep + 1)] ==
            IF n = 0 THEN << >>
            ELSE LET x    == (n - 1) * SamplingStep
                     idxs == ColumnIdxs(cells, x)
                 IN  IF x < TopViewW /\ Len(idxs) > 0
                     THEN Append(F[n - 1],
                                 [col    |-> x,
                                  real_x |-> cells[ArgMinDepth(cells, idxs)].real_x,
                                  real_z |-> cells[ArgMinDepth(cells, idxs)].real_z])
                     ELSE F[n - 1]
    IN  F[TopViewW \div SamplingStep + 1]

\* x_local = obs_array[:, 1]; y_local = -obs_array[:, 0]; None when nothing survived
\* faulty variant: the previous set is kept, and extended, instead of replaced
ToObstaclePointsKept(sampled) ==
    IF Len(sampled) > 0
    THEN Array(obstacle_points.points \o
               [i \in 1..Len(sampled) |->
                   << sampled[i].real_z, -sampled[i].real_x >>])
    ELSE obstacle_points

ToObstaclePoints(sampled) ==
    IF Len(sampled) > 0
    THEN Array([i \in 1..Len(sampled) |->
                   << sampled[i].real_z, -sampled[i].real_x >>])
    ELSE None

\* _update_top_view_and_obstacles(X, Y, Z_0): the new self.obstacle_points
update_top_view_and_obstacles(r, pts) ==
    ToObstaclePoints(SampleColumns(Rasterize(r, pts)))

---------------------------------------------------------------------------
(* Potential-field corrector *)

(* The modelled ground points lie on a lattice of pitch Pitch, so that a    *)
(* force is an integer vector: the program's force (in mm^-3) times         *)
(* ForceScale * Pitch^3.  A positive common factor changes neither the      *)
(* comparison of two magnitudes nor the direction of a force.               *)
Pitch == InfluenceRange \div 2
ForceScale == (InfluenceRange \div Pitch) ^ 4

Dot(u, v) == u[1] * v[1] + u[2] * v[2]

Norm2(u) == Dot(u, u)

\* if dist < 1e-6 or dist > influence_range: continue
\* (for integer millimetres dist < 1e-6 m holds exactly when dist = 0)
\* faulty variant: the influence boundary excluded
SkipObstacleAtRange(vec) ==
    Norm2(vec) = 0 \/ Norm2(vec) >= InfluenceRange * InfluenceRange

SkipObstacle(vec) ==
    Norm2(vec) = 0 \/ Norm2(vec) > InfluenceRange * InfluenceRange

\* (1.0 / dist**3) * (vec / dist), scaled: vec / |vec|^4 in lattice units
Repulsion(vec) ==
    LET v == << vec[1] \div Pitch, vec[2] \div Pitch >>
        q == Norm2(v) * Norm2(v)
    IN  << v[1] * (ForceScale \div q), v[2] * (ForceScale \div q) >>

\* compute_repulsive_force(point, obstacles): point and obstacles in mm
compute_repulsive_force(point, obstacles) ==
    IF obstacles.is_none THEN << 0, 0 >>
    ELSE LET obs == obstacles.points
             F[k \in 0..Len(obs)] ==
                 IF k = 0 THEN << 0, 0 >>
                 ELSE LET vec == << point[1] - obs[k][1], point[2] - obs[k][2] >>
                      IN  IF SkipObstacle(vec) THEN F[k - 1]
                          ELSE << F[k - 1][1] + Repulsion(vec)[1],
                                  F[k - 1][2] + Repulsion(vec)[2] >>
         IN  F[Len(obs)]

\* pt = updated_trajs[i, j] * (MAX_V / RATE)
StepPoint(step) == << step[1] * MmPerUnit, step[2] * MmPerUnit >>

\* the inner loop over j: max_force after the last step (mag > max_magnitude
\* is strict, so the earliest step of largest magnitude is kept)
\* faulty variant: the forces of the steps added up
WorstForceSummed(traj, obstacles) ==
    LET F[j \in 0..Len(traj)] ==
            IF j = 0 THEN << 0, 0 >>
            ELSE LET f == compute_repulsive_force(StepPoint(traj[j]), obstacles)
                 IN  << F[j - 1][1] + f[1], F[j - 1][2] + f[2] >>
    IN  F[Len(traj)]

WorstForce(traj, obstacles) ==
    LET F[j \in 0..Len(traj)] ==
            IF j = 0 THEN << 0, 0 >>
            ELSE LET f == compute_repulsive_force(StepPoint(traj[j]), obstacles)
                 IN  IF Norm2(f) > Norm2(F[j - 1]) THEN f ELSE F[j - 1]
    IN  F[Len(traj)]

\* np.arctan2(max_force[1], max_force[0]) as a direction; arctan2(0, 0) = 0
ArcTan2(f) ==
    IF f = << 0, 0 >> THEN << 1, 0 >>
    ELSE << f[1] \div Gcd(Abs(f[1]), Abs(f[2])),
            f[2] \div Gcd(Abs(f[1]), Abs(f[2])) >>

\* np.clip(angle, -np.pi / 4, np.pi / 4)
\* faulty variant: the angle is not clipped
ClipAngleMissing(d) == d

ClipAngle(d) ==
    IF d[1] > 0 /\ Abs(d[2]) <= d[1] THEN d
    ELSE IF d[2] > 0 \/ (d[2] = 0 /\ d[1] < 0) THEN << 1, 1 >>
    ELSE << 1, -1 >>

\* the angle the corrector rotates a trajectory by
CorrectionAngle(traj, obstacles) == ClipAngle(ArcTan2(WorstForce(traj, obstacles)))

\* one row of (rotation_matrix @ updated_trajs[i].T).T, with
\* cos = d[1] / sqrt(d[1]^2 + d[2]^2) and sin = d[2] / sqrt(d[1]^2 + d[2]^2)
RotateStep(d, step) ==
    << d[1] * step[1] - d[2] * step[2],
       d[2] * step[1] + d[1] * step[2],
       Norm2(d) * step[3] >>

RotateTraj(d, traj) == [j \in 1..Len(traj) |-> RotateStep(d, traj[j])]

\* if self.obstacle_points is None or len(self.obstacle_points) == 0
NoObstacles(obstacles) == obstacles.is_none \/ Len(obstacles.points) = 0

\* faulty variant: without obstacles the steps are returned scaled to metres
apply_repulsive_forces_scaled(trajectories, obstacles) ==
    IF NoObstacles(obstacles)
    THEN [i \in 1..Len(trajectories) |->
            [j \in 1..Len(trajectories[i]) |->
                << trajectories[i][j][1] * MmPerUnit,
                   trajectories[i][j][2] * MmPerUnit, trajectories[i][j][3] >>]]
    ELSE [i \in 1..Len(trajectories) |->
            RotateTraj(CorrectionAngle(trajectories[i], obstacles), trajectories[i])]

\* apply_repulsive_forces_to_trajectories(trajectories), reading self.obstacle_points
apply_repulsive_forces_to_trajectories(trajectories, obstacles) ==
    IF NoObstacles(obstacles) THEN trajectories
    ELSE [i \in 1..Len(trajectories) |->
            RotateTraj(CorrectionAngle(trajectories[i], obstacles), trajectories[i])]

---------------------------------------------------------------------------
(* Inputs of the modelled runs *)

\* the outputs of the depth network (outputs["points"]) the runs draw from,
\* as sequences of <<X, Y, Z>>; m is the robot's safety margin, so that the
\* obstacles that come within range of a trajectory lie on the lattice
Cloud(r, c) ==
    LET m == safety_margin(r)
    IN  CASE c = 1 -> << << 0, -100, 500 + m >>, << 0, 0, 0 >>,
                         << 0, 0, proximity_threshold(r) + 1 >> >>
          [] c = 2 -> << << 0, 0, 800 + m >>, << 0, 0, 500 + m >>,
                         << 1, 0, 500 + m >> >>
          [] c = 3 -> << << -Pitch, 0, 500 + m >>, << 0, 0, 500 + m >>,
                         << Pitch, 0, 500 + m >> >>
          [] c = 4 -> << << 0, 0, 1000 + m >>, << 4, 0, 600 + m >> >>

CloudIds == 1..4

\* the robots of the modelled runs ("locobot2" is configured as "locobot")
RunRobots == { "locobot", "robomaster", "turtlebot4" }

\* _image_cb after the depth inference: the mask and the projection of each
\* of the clouds
ProjectCloud == 
    [r \in RunRobots |-> [c \in CloudIds |->
        update_top_view_and_obstacles(r, MaskPoints(r, Cloud(r, c)))]]

\* the trajectories the denoiser's outputs are drawn from: LenTraj steps
\* <<x, y, 1>> in normalised units
TrajKinds == << "stay", "straight", "ramp", "left", "zig" >>

TrajStep(kind, j) ==
    CASE kind = "stay"     -> << 0, 0, 1 >>
      [] kind = "straight" -> << 10, 0, 1 >>
      [] kind = "ramp"     -> << 10 * j, 0, 1 >>
      [] kind = "left"     -> << 10, 10 * (j - 1), 1 >>
      [] kind = "zig"      -> << 10 * (j % 2), -10 * ((j + 1) % 2), 1 >>

Traj(kind) == [j \in 1..LenTraj |-> TrajStep(kind, j)]

\* the trajectory batches: NumSamples trajectories each, up to the order of
\* the trajectories (the corrector treats them one by one)
AllBatches ==
    { [i \in 1..NumSamples |-> Traj(TrajKinds[ks[i]])] :
        ks \in { f \in [1..NumSamples -> 1..Len(TrajKinds)] :
                    \A i \in 1..(NumSamples - 1) : f[i] <= f[i + 1] } }

\* torch.randn: the noise a tick starts from
NoiseSeeds == { 1, 3 }

\* the clock advances between two callbacks
Deltas == { CtxDtNs - 1, CtxDtNs }

---------------------------------------------------------------------------
(* Trajectory sampler *)

\* noise_scheduler.set_timesteps(n); noise_scheduler.timesteps: n-1, ..., 0
\* faulty variant: the timesteps in ascending order
SetTimestepsAscending(n) == [i \in 1..n |-> i - 1]

SetTimesteps(n) == [i \in 1..n |-> n - i]

\* naction = torch.randn(...)
FreshNoise(seed) == [seed |-> seed, applied |-> << >>]

\* noise_pred = model("noise_pred_net", sample=naction, timestep=k, ...)
\* naction = noise_scheduler.step(noise_pred, k, naction).prev_sample
\* The networks are opaque: the state is the term built from the noise,
\* step(k_m, ... step(k_1, noise)), kept as the sequence k_1, ..., k_m.
DenoiseUpdate(x, k) == [x EXCEPT !.applied = Append(@, k)]

\* to_numpy(get_action(naction)): the batch the networks turn the noise into
get_action(x) ==
    [i \in 1..NumSamples |->
        Traj(TrajKinds[((x.seed + i - 2) % Len(TrajKinds)) + 1])]

\* if len(self.context_queue) <= self.context_size: return
\* faulty variant: a window of exactly context_size frames passes
NotReadyStrict(q) == Len(q) < ContextSize

NotReady(q) == Len(q) <= ContextSize

---------------------------------------------------------------------------
(* Publisher / visualiser *)

\* a published float: <<a, n>> stands for a / sqrt(n)
\* [float(x) for x in traj_batch.flatten()]: trajectory by trajectory, step
\* by step, x before y
Flatten(batch) ==
    LET L == Len(batch[1])
    IN  [k \in 1..(Len(batch) * L * 2) |->
            LET i == ((k - 1) \div (2 * L)) + 1
                j == (((k - 1) % (2 * L)) \div 2) + 1
                step == batch[i][j]
            IN  IF (k - 1) % 2 = 0 THEN << step[1], step[3] >>
                                  ELSE << step[2], step[3] >>]

\* sampled_actions_msg.data = [0.0] + [float(x) for x in traj_batch.flatten()]
SampledActionsMsg(batch) == << << 0, 1 >> >> \o Flatten(batch)

\* chosen = traj_batch[0][self.args.waypoint]
\* faulty variant: the waypoint taken from the last trajectory
ChosenLast(batch) == batch[Len(batch)][WaypointIndex + 1]

Chosen(batch) == batch[1][WaypointIndex + 1]

\* waypoint_msg.data = [float(chosen[0]), float(chosen[1])]
WaypointMsg(chosen) == << << chosen[1], chosen[3] >>, << chosen[2], chosen[3] >> >>

\* explore.py: if normalize: chosen *= MAX_V / RATE.  chosen is a view of
\* traj_batch, so the multiplication writes into the batch.
ScaleChosen(batch, norm) ==
    IF norm
    THEN [batch EXCEPT ![1][WaypointIndex + 1] =
              << @[1] * MmPerUnit, @[2] * MmPerUnit, @[3] >>]
    ELSE batch

\* _publish_action_msgs(traj_batch): the two messages and the batch as the
\* caller holds it afterwards
publish_action_msgs(v, norm, batch) ==
    LET after == IF v = "plain" THEN ScaleChosen(batch, norm) ELSE batch
    IN  [sampled  |-> SampledActionsMsg(batch),
         waypoint |-> WaypointMsg(Chosen(after)),
         batch    |-> after]

\* is_apf_applied = (self.obstacle_points is not None
\*                   and len(self.obstacle_points) > 0)
\* faulty variant: the visualiser's default, is_apf_applied = False
is_apf_applied_default(obstacles) == FALSE

is_apf_applied(obstacles) == ~obstacles.is_none /\ Len(obstacles.points) > 0

\* _publish_viz_image(traj_batch, is_apf_applied): the overlay of the batch on
\* self.context_queue[-1]; the colours tell whether the correction was active
publish_viz_image(q, batch, applied) ==
    [frame |-> q[Len(q)], batch |-> batch, apf |-> applied]

---------------------------------------------------------------------------
(* The node: ExplorationNode.__init__, and the callbacks rclpy.spin runs,   *)
(* one at a time and each to completion (main: rclpy.spin(node), the        *)
(* single-threaded executor)                                                *)

NoCall == [op |-> "none"]

NoTick == [n |-> 0]

\* the state __init__ leaves
InitNode ==
    /\ now = 0
    /\ last_ctx_time = 0
    /\ context_queue = << >>
    /\ obstacle_points = None
    /\ spinning = TRUE
    /\ pc = "idle"
    /\ naction = FreshNoise(0)
    /\ timesteps = << >>
    /\ waypoint_pub = << >>
    /\ sampled_actions_pub = << >>
    /\ viz_pub = << >>
    /\ nframes = 0
    /\ pushed = << >>
    /\ discarded = { }
    /\ obs_frame = 0
    /\ last_cb = [kind |-> "init"]
    /\ tick = NoTick

Init ==
    /\ \/ variant = "apf" /\ robot \in RunRobots /\ normalize = FALSE
       \/ variant = "plain" /\ robot = "locobot" /\ normalize \in BOOLEAN
    /\ InitNode
    /\ call = NoCall

\* time passes between two callbacks
Advance ==
    /\ spinning
    /\ pc = "idle"
    /\ \E d \in Deltas :
          /\ now + d <= MaxAdvances * CtxDtNs
          /\ now' = now + d
    /\ UNCHANGED << variant, robot, normalize, last_ctx_time, context_queue,
                    obstacle_points, spinning, pc, naction, timesteps,
                    waypoint_pub, sampled_actions_pub, viz_pub, nframes, pushed,
                    discarded, obs_frame, last_cb, tick, call >>

\* faulty variant of _image_cb: the depth inference ahead of the append, so
\* that a failing inference leaves the window and the gate as they were
ImageCbApfInferFirst ==
    /\ variant = "apf"
    /\ spinning
    /\ pc = "idle"
    /\ nframes < MaxFrames
    /\ nframes' = nframes + 1
    /\ IF GateClosed(now, last_ctx_time)
       THEN /\ last_cb' = [kind |-> "frame_discarded", frame |-> nframes + 1]
            /\ discarded' = discarded \cup { nframes + 1 }
            /\ UNCHANGED << context_queue, last_ctx_time, pushed,
                            obstacle_points, obs_frame, spinning >>
       ELSE /\ UNCHANGED discarded
            /\ \E c \in CloudIds, ok \in BOOLEAN :
                  IF ok
                  THEN /\ obstacle_points' = ProjectCloud[robot][c]
                       /\ obs_frame' = nframes + 1
                       /\ context_queue' = DequeAppend(context_queue, nframes + 1)
                       /\ last_ctx_time' = now
                       /\ pushed' = Append(pushed, nframes + 1)
                       /\ last_cb' = [kind   |-> "frame_projected",
                                      frame  |-> nframes + 1,
                                      cloud  |-> c,
                                      before |-> obstacle_points]
                       /\ UNCHANGED spinning
                  ELSE /\ spinning' = FALSE
                       /\ last_cb' = [kind |-> "depth_failed",
                                      frame |-> nframes + 1]
                       /\ UNCHANGED << obstacle_points, obs_frame,
                                       context_queue, last_ctx_time, pushed >>
    /\ UNCHANGED << variant, robot, normalize, now, pc, naction, timesteps,
                    waypoint_pub, sampled_actions_pub, viz_pub, tick, call >>

\* explore_apf.py _image_cb(msg); the frame is named by its arrival number.
\* The depth network may raise: the exception leaves _image_cb after the
\* append, and leaves rclpy.spin (main catches KeyboardInterrupt only).
ImageCbApf ==
    /\ variant = "apf"
    /\ spinning
    /\ pc = "idle"
    /\ nframes < MaxFrames
    /\ nframes' = nframes + 1
    /\ IF GateClosed(now, last_ctx_time)
       THEN /\ last_cb' = [kind |-> "frame_discarded", frame |-> nframes + 1]
            /\ discarded' = discarded \cup { nframes + 1 }
            /\ UNCHANGED << context_queue, last_ctx_time, pushed,
                            obstacle_points, obs_frame, spinning >>
       ELSE /\ context_queue' = DequeAppend(context_queue, nframes + 1)
            /\ last_ctx_time' = now
            /\ pushed' = Append(pushed, nframes + 1)
            /\ UNCHANGED discarded
            /\ \E c \in CloudIds, ok \in BOOLEAN :
                  IF ok
                  THEN /\ obstacle_points' = ProjectCloud[robot][c]
                       /\ obs_frame' = nframes + 1
                       /\ last_cb' = [kind   |-> "frame_projected",
                                      frame  |-> nframes + 1,
                                      cloud  |-> c,
                                      before |-> obstacle_points]
                       /\ UNCHANGED spinning
                  ELSE /\ spinning' = FALSE
                       /\ last_cb' = [kind |-> "depth_failed",
                                      frame |-> nframes + 1]
                       /\ UNCHANGED << obstacle_points, obs_frame >>
    /\ UNCHANGED << variant, robot, normalize, now, pc, naction, timesteps,
                    waypoint_pub, sampled_actions_pub, viz_pub, tick, call >>

\* explore.py _image_cb(msg): self.context_queue.append(msg_to_pil(msg))
ImageCbPlain ==
    /\ variant = "plain"
    /\ spinning
    /\ pc = "idle"
    /\ nframes < MaxFrames
    /\ nframes' = nframes + 1
    /\ context_queue' = DequeAppend(context_queue, nframes + 1)
    /\ pushed' = Append(pushed, nframes + 1)
    /\ last_cb' = [kind |-> "frame_appended", frame |-> nframes + 1]
    /\ UNCHANGED << variant, robot, normalize, now, last_ctx_time,
                    obstacle_points, spinning, pc, naction, timesteps,
                    waypoint_pub, sampled_actions_pub, viz_pub, discarded,
                    obs_frame, tick, call >>

\* _timer_cb, up to the start of the denoising loop
TimerCb ==
    /\ spinning
    /\ pc = "idle"
    /\ IF NotReady(context_queue)
       THEN /\ last_cb' = [kind |-> "tick_skipped"]
            /\ UNCHANGED << pc, naction, timesteps >>
       ELSE /\ Len(waypoint_pub) < MaxTicks
            /\ \E seed \in NoiseSeeds : naction' = FreshNoise(seed)
            /\ timesteps' = SetTimesteps(NumDiffusionIters)
            /\ pc' = "denoise"
            /\ last_cb' = [kind |-> "tick_started"]
    /\ UNCHANGED << variant, robot, normalize, now, last_ctx_time,
                    context_queue, obstacle_points, spinning, waypoint_pub,
                    sampled_actions_pub, viz_pub, nframes, pushed, discarded,
                    obs_frame, tick, call >>

\* _timer_cb, one iteration of: for k in self.noise_scheduler.timesteps
DenoiseStep ==
    /\ spinning
    /\ pc = "denoise"
    /\ timesteps # << >>
    /\ naction' = DenoiseUpdate(naction, Head(timesteps))
    /\ timesteps' = Tail(timesteps)
    /\ last_cb' = [kind |-> "denoised", k |-> Head(timesteps)]
    /\ UNCHANGED << variant, robot, normalize, now, last_ctx_time,
                    context_queue, obstacle_points, spinning, pc, waypoint_pub,
                    sampled_actions_pub, viz_pub, nframes, pushed, discarded,
                    obs_frame, tick, call >>

\* _timer_cb after the loop: get_action, the correction (explore_apf.py),
\* the two action messages and the visualisation; tick.rotated tells whether
\* the corrector went past its early return
TimerPublish ==
    /\ spinning
    /\ pc = "denoise"
    /\ timesteps = << >>
    /\ LET raw  == get_action(naction)
           flag == variant = "apf" /\ is_apf_applied(obstacle_points)
           traj_batch ==
               IF variant = "apf"
               THEN apply_repulsive_forces_to_trajectories(raw, obstacle_points)
               ELSE raw
           msgs == publish_action_msgs(variant, normalize, traj_batch)
       IN  /\ sampled_actions_pub' = Append(sampled_actions_pub, msgs.sampled)
           /\ waypoint_pub' = Append(waypoint_pub, msgs.waypoint)
           /\ viz_pub' = Append(viz_pub,
                                publish_viz_image(context_queue, msgs.batch, flag))
           /\ tick' = [n |-> tick.n + 1, noise |-> naction.seed,
                       applied |-> naction.applied, raw |-> raw,
                       obstacles |-> obstacle_points, batch |-> traj_batch,
                       rotated |-> variant = "apf" /\ ~NoObstacles(obstacle_points)]
    /\ pc' = "idle"
    /\ last_cb' = [kind |-> "tick_published"]
    /\ UNCHANGED << variant, robot, normalize, now, last_ctx_time,
                    context_queue, obstacle_points, spinning, naction,
                    timesteps, nframes, pushed, discarded, obs_frame, call >>

Next ==
    \/ Advance
    \/ ImageCbApf
    \/ ImageCbPlain
    \/ TimerCb
    \/ DenoiseStep
    \/ TimerPublish

Spec == Init /\ [][Next]_vars

---------------------------------------------------------------------------
(* Properties of the node (checked under Spec) *)

Min(a, b) == IF a <= b THEN a ELSE b

Last(s) == s[Len(s)]

\* C1: after n accepted pushes the context window holds exactly the last
\* min(n, capacity) pushed frames, oldest first; its length never exceeds
\* the capacity context_size + 1, and is the capacity once n exceeds it.
C1_WindowHoldsLastPushes ==
    LET n == Len(pushed)
        m == Min(n, ContextSize + 1)
    IN  /\ Len(context_queue) = m
        /\ \A i \in 1..m : context_queue[i] = pushed[n - m + i]
        /\ Len(context_queue) <= ContextSize + 1
        /\ (n > ContextSize + 1 => Len(context_queue) = ContextSize + 1)

\* more pushes than the capacity were accepted by the gated node, and the
\* oldest frame has been evicted
C1_Witness ==
    /\ variant = "apf"
    /\ Len(pushed) > ContextSize + 1
    /\ context_queue[1] # pushed[1]

\* C2: a timer callback that finds context_size frames or fewer in the
\* window ends at once: it publishes nothing and leaves the window and the
\* obstacle set as they were; and whatever is published, is published by a
\* tick that found more than context_size frames.
C2_ShortWindowTickIsNoOp ==
    /\ [][ ( /\ pc = "idle"
             /\ last_cb'.kind \in { "tick_skipped", "tick_started" }
             /\ Len(context_queue) <= ContextSize )
           => ( /\ pc' = "idle"
                /\ UNCHANGED << waypoint_pub, sampled_actions_pub, viz_pub,
                                context_queue, obstacle_points >> ) ]_vars
    /\ [][ ( \/ Len(waypoint_pub') > Len(waypoint_pub)
             \/ Len(sampled_actions_pub') > Len(sampled_actions_pub)
             \/ Len(viz_pub') > Len(viz_pub) )
           => Len(context_queue) > ContextSize ]_vars

\* the timer fired on a window of exactly context_size frames, with an
\* obstacle set present, and did nothing
C2_Witness ==
    /\ last_cb.kind = "tick_skipped"
    /\ Len(context_queue) = ContextSize
    /\ ~obstacle_points.is_none
    /\ waypoint_pub = << >>

\* C3: a frame that arrives less than ctx_dt after the last accepted one is
\* discarded: the callback leaves the window, the last-accept time and the
\* obstacle set as they were and runs no depth inference, and a discarded
\* frame never enters the window later.
C3_EarlyFrameDiscarded ==
    /\ [][ ( /\ variant = "apf"
             /\ nframes' = nframes + 1
             /\ now - last_ctx_time < CtxDtNs )
           => ( /\ UNCHANGED << context_queue, last_ctx_time, obstacle_points,
                                obs_frame, pushed >>
                /\ last_cb'.kind = "frame_discarded" ) ]_vars
    /\ [](\A f \in discarded :
            \A i \in 1..Len(context_queue) : context_queue[i] # f)

\* a frame came one nanosecond short of ctx_dt after an accepted frame and
\* was discarded, and a later frame was accepted
C3_Witness ==
    /\ discarded # { }
    /\ \E f \in discarded : \E i \in 1..Len(pushed) :
          pushed[i] < f /\ \E j \in 1..Len(pushed) : pushed[j] > f
    /\ context_queue # << >>

\* C4 (as claimed): when the depth inference of a frame callback fails, the
\* obstacle set is what it was before the callback, and the node keeps
\* dispatching callbacks, so that later ticks correct against that set.
C4_FailureRetainsSetAndNodeRuns ==
    [][ last_cb'.kind = "depth_failed"
        => (obstacle_points' = obstacle_points /\ spinning') ]_vars

\* C9: a tick applies exactly num_diffusion_iters updates, one per timestep
\* num_diffusion_iters - 1, ..., 0 in that order, each to the output of the
\* update before it (the first to the fresh noise); from the start of the
\* loop to its last timestep nothing is published and no frame callback
\* runs, and what a tick publishes follows the last timestep.
C9_DenoisingInOrder ==
    /\ [](tick.n > 0 =>
            /\ Len(tick.applied) = NumDiffusionIters
            /\ \A i \in 1..NumDiffusionIters :
                  tick.applied[i] = NumDiffusionIters - i)
    /\ [][ (pc = "idle" /\ pc' = "denoise") => naction'.applied = << >> ]_vars
    /\ [][ (pc = "denoise" /\ pc' = "denoise")
           => ( /\ Len(timesteps) > 0
                /\ naction'.seed = naction.seed
                /\ naction'.applied = Append(naction.applied, Head(timesteps))
                /\ UNCHANGED << waypoint_pub, sampled_actions_pub, viz_pub,
                                context_queue, nframes, last_ctx_time,
                                obstacle_points >> ) ]_vars
    /\ [][ Len(waypoint_pub') > Len(waypoint_pub)
           => ( /\ pc = "denoise"
                /\ timesteps = << >>
                /\ Len(naction.applied) = NumDiffusionIters
                /\ tick'.applied = naction.applied
                /\ nframes' = nframes ) ]_vars

\* a tick has published after a loop of at least two timesteps
C9_Witness ==
    /\ tick.n > 0
    /\ Len(tick.applied) >= 2
    /\ tick.applied[1] > tick.applied[2]
    /\ Len(waypoint_pub) = tick.n

\* C10: on a tick of the correcting node, the waypoint message is (x, y) of
\* entry [0][waypoint_index] of that tick's corrected batch, and the
\* sampled-actions message is 0.0 followed by the corrected batch, flattened
\* trajectory by trajectory and step by step.
C10_MessagesCarryCorrectedBatch ==
    (tick.n > 0 /\ variant = "apf") =>
        LET b  == tick.batch
            wp == Last(waypoint_pub)
            sa == Last(sampled_actions_pub)
            L  == LenTraj
        IN  /\ Len(waypoint_pub) = tick.n
            /\ Len(sampled_actions_pub) = tick.n
            /\ wp = << << b[1][WaypointIndex + 1][1], b[1][WaypointIndex + 1][3] >>,
                       << b[1][WaypointIndex + 1][2], b[1][WaypointIndex + 1][3] >> >>
            /\ Len(sa) = 1 + NumSamples * L * 2
            /\ sa[1] = << 0, 1 >>
            /\ \A i \in 1..NumSamples : \A j \in 1..L :
                  /\ sa[1 + ((i - 1) * L + (j - 1)) * 2 + 1] = << b[i][j][1], b[i][j][3] >>
                  /\ sa[1 + ((i - 1) * L + (j - 1)) * 2 + 2] = << b[i][j][2], b[i][j][3] >>

\* a tick published a batch whose first trajectory the corrector rotated,
\* and whose first two trajectories differ at the waypoint index
C10_Witness ==
    /\ tick.n > 0
    /\ variant = "apf"
    /\ tick.batch[1][WaypointIndex + 1] # tick.raw[1][WaypointIndex + 1]
    /\ tick.batch[1][WaypointIndex + 1] # tick.batch[2][WaypointIndex + 1]
    /\ Last(waypoint_pub)[1][1] # 0
    /\ Last(waypoint_pub)[2][1] # 0

---------------------------------------------------------------------------
(* The corrector applied on its own: compute_repulsive_force and            *)
(* apply_repulsive_forces_to_trajectories on obstacle sets and batches      *)
(* drawn from bounded sets                                                  *)

\* obstacles per set
MaxObstacles == 2

\* ground points on the lattice, <<x_local, y_local>> in mm
LatticePoints ==
    { << Pitch * a, Pitch * b >> : a \in 0..2, b \in -1..1 }

\* None, the empty array and the arrays of up to MaxObstacles lattice points,
\* in the order the projector emits them: by increasing column, that is by
\* non-increasing y_local
ObstacleSets ==
    { None } \cup
    UNION { { Array(o) : o \in { f \in [1..n -> LatticePoints] :
                                   \A k \in 1..(n - 1) : f[k][2] >= f[k + 1][2] } } :
            n \in 0..MaxObstacles }

InitAPF ==
    /\ variant = "apf"
    /\ robot = "locobot"
    /\ normalize = FALSE
    /\ now = 0
    /\ last_ctx_time = 0
    /\ context_queue = << >>
    /\ obstacle_points \in ObstacleSets
    /\ spinning = TRUE
    /\ pc = "idle"
    /\ naction = FreshNoise(0)
    /\ timesteps = << >>
    /\ waypoint_pub = << >>
    /\ sampled_actions_pub = << >>
    /\ viz_pub = << >>
    /\ nframes = 0
    /\ pushed = << >>
    /\ discarded = { }
    /\ obs_frame = 0
    /\ last_cb = [kind |-> "init"]
    /\ tick = NoTick
    /\ call = NoCall

\* compute_repulsive_force(point, self.obstacle_points)
CallForce ==
    /\ call = NoCall
    /\ \E p \in LatticePoints :
          call' = [op     |-> "force",
                   point  |-> p,
                   result |-> compute_repulsive_force(p, obstacle_points)]
    /\ UNCHANGED << variant, robot, normalize, now, last_ctx_time,
                    context_queue, obstacle_points, spinning, pc, naction,
                    timesteps, waypoint_pub, sampled_actions_pub, viz_pub,
                    nframes, pushed, discarded, obs_frame, last_cb, tick >>

\* apply_repulsive_forces_to_trajectories(trajectories); pts, max_force and
\* angle are the locals pt (per step), max_force and angle of the loop over
\* the trajectories, one per trajectory the loop ran for
CallCorrector ==
    /\ call = NoCall
    /\ \E b \in AllBatches :
          call' = [op     |-> "corrector",
                   input  |-> b,
                   result |-> apply_repulsive_forces_to_trajectories(b, obstacle_points),
                   pts    |->
                       IF NoObstacles(obstacle_points) THEN << >>
                       ELSE [i \in 1..Len(b) |->
                               [j \in 1..Len(b[i]) |-> StepPoint(b[i][j])]],
                   max_force |->
                       IF NoObstacles(obstacle_points) THEN << >>
                       ELSE [i \in 1..Len(b) |-> WorstForce(b[i], obstacle_points)],
                   angle  |->
                       IF NoObstacles(obstacle_points) THEN << >>
                       ELSE [i \in 1..Len(b) |->
                               CorrectionAngle(b[i], obstacle_points)]]
    /\ UNCHANGED << variant, robot, normalize, now, last_ctx_time,
                    context_queue, obstacle_points, spinning, pc, naction,
                    timesteps, waypoint_pub, sampled_actions_pub, viz_pub,
                    nframes, pushed, discarded, obs_frame, last_cb, tick >>

NextAPF ==
    \/ CallForce
    \/ CallCorrector

SpecAPF == InitAPF /\ [][NextAPF]_vars

---------------------------------------------------------------------------
(* Properties of the corrector (checked under SpecAPF) *)

\* the sum of vec / |vec|^4 over the obstacles whose squared distance from
\* the point satisfies Counts
SumOfRepulsions(point, pts, Counts(_)) ==
    LET F[k \in 0..Len(pts)] ==
            IF k = 0 THEN << 0, 0 >>
            ELSE LET vec == << point[1] - pts[k][1], point[2] - pts[k][2] >>
                     v   == << vec[1] \div Pitch, vec[2] \div Pitch >>
                     w   == ForceScale \div (Norm2(v) * Norm2(v))
                 IN  IF Counts(Norm2(vec))
                     THEN << F[k - 1][1] + v[1] * w, F[k - 1][2] + v[2] * w >>
                     ELSE F[k - 1]
    IN  F[Len(pts)]

\* C6 (as claimed): an obstacle at distance exactly influence_range
\* contributes nothing: the force is the sum over the obstacles at a distance
\* d with 0 < d < influence_range.
C6_BoundaryExcluded ==
    (call.op = "force" /\ ~obstacle_points.is_none) =>
        call.result =
            SumOfRepulsions(call.point, obstacle_points.points,
                LAMBDA d2 : d2 > 0 /\ d2 < InfluenceRange * InfluenceRange)

\* C6 (amended): the influence boundary is inclusive: the force is the sum
\* over the obstacles at a distance d with 0 < d <= influence_range, so an
\* obstacle at distance exactly influence_range contributes vec / d^4.
C6_BoundaryIncluded ==
    (call.op = "force" /\ ~obstacle_points.is_none) =>
        call.result =
            SumOfRepulsions(call.point, obstacle_points.points,
                LAMBDA d2 : d2 > 0 /\ d2 <= InfluenceRange * InfluenceRange)

\* the force at a point with a single obstacle, at distance exactly
\* influence_range straight ahead, is not zero
C6_Witness ==
    /\ call.op = "force"
    /\ ~obstacle_points.is_none
    /\ Len(obstacle_points.points) = 1
    /\ obstacle_points.points[1][1] - call.point[1] = InfluenceRange
    /\ obstacle_points.points[1][2] = call.point[2]
    /\ call.result[1] < 0

\* a direction <<c, s>> with atan2(s, c) in [-pi/4, pi/4]
WithinQuarterPi(d) == d[1] > 0 /\ -d[1] <= d[2] /\ d[2] <= d[1]

\* every step of the trajectory is farther than influence_range from, or
\* at (closer than 1e-6 to), every obstacle
NothingInRange(traj, pts) ==
    \A j \in 1..Len(traj) : \A k \in 1..Len(pts) :
        LET d2 == (traj[j][1] * MmPerUnit - pts[k][1]) * (traj[j][1] * MmPerUnit - pts[k][1])
                  + (traj[j][2] * MmPerUnit - pts[k][2]) * (traj[j][2] * MmPerUnit - pts[k][2])
        IN  d2 = 0 \/ d2 > InfluenceRange * InfluenceRange

\* C7: the angle the corrector rotates a trajectory by lies in
\* [-pi/4, pi/4]; when the worst force is the zero vector (in particular when
\* no obstacle is in range of any step, or every obstacle in range is closer
\* than 1e-6) the angle is 0 and the trajectory is returned as it was.
C7_AngleClamped ==
    call.op = "corrector" =>
        \A i \in 1..Len(call.angle) :
            LET d == call.angle[i]
            IN  /\ WithinQuarterPi(d)
                /\ \A j \in 1..Len(call.input[i]) :
                      call.result[i][j] =
                          << d[1] * call.input[i][j][1] - d[2] * call.input[i][j][2],
                             d[2] * call.input[i][j][1] + d[1] * call.input[i][j][2],
                             (d[1] * d[1] + d[2] * d[2]) * call.input[i][j][3] >>
                /\ (call.max_force[i] = << 0, 0 >> =>
                        d = << 1, 0 >> /\ call.result[i] = call.input[i])
                /\ (NothingInRange(call.input[i], obstacle_points.points) =>
                        call.max_force[i] = << 0, 0 >> /\ call.result[i] = call.input[i])

\* one trajectory of the batch has its only obstacle on one of its steps
\* (zero force, returned as it was), the other is pushed straight back
\* (atan2 = pi) and is rotated by pi/4
C7_Witness ==
    /\ call.op = "corrector"
    /\ Len(call.angle) >= 2
    /\ \E i \in 1..Len(call.angle) :
          /\ call.max_force[i] = << 0, 0 >>
          /\ \E j \in 1..Len(call.input[i]) : \E k \in 1..Len(obstacle_points.points) :
                << call.input[i][j][1] * MmPerUnit, call.input[i][j][2] * MmPerUnit >>
                    = obstacle_points.points[k]
          /\ call.result[i] = call.input[i]
    /\ \E i \in 1..Len(call.angle) :
          /\ call.max_force[i][1] < 0
          /\ call.max_force[i][2] = 0
          /\ call.angle[i] = << 1, 1 >>
          /\ call.result[i] # call.input[i]

\* C8: with no obstacle set, or one of length 0, the corrector returns its
\* input batch, element for element.
C8_NoObstaclesPassThrough ==
    (call.op = "corrector"
        /\ (obstacle_points.is_none \/ Len(obstacle_points.points) = 0)) =>
        /\ Len(call.result) = Len(call.input)
        /\ \A i \in 1..Len(call.input) :
              /\ Len(call.result[i]) = Len(call.input[i])
              /\ \A j \in 1..Len(call.input[i]) :
                    call.result[i][j] = call.input[i][j]

\* a batch of two different, non-zero trajectories went through the
\* corrector while self.obstacle_points was None
C8_Witness ==
    /\ call.op = "corrector"
    /\ obstacle_points.is_none
    /\ call.input[1] # call.input[2]
    /\ call.input[1][1] # << 0, 0, 1 >>
    /\ call.result = call.input

---------------------------------------------------------------------------
(* The depth projector on its own: one frame's points through the mask of   *)
(* _image_cb and _update_top_view_and_obstacles, for every robot preset     *)

MaxPoints == 3

\* camera-frame points <<X, Y, Z_0>> in mm: on and beside the optical axis,
\* below the safety margin, beyond the grid's left edge, on its left edge,
\* and above the height cut
PointLib ==
    { << x, 0, z >> : x \in { 0, 1, 18 }, z \in { 30, 500, 800 } }
        \cup { << -1500, 0, 500 >>, << -501, 0, 500 >>, << 0, -100, 500 >> }

PointClouds == UNION { [1..n -> PointLib] : n \in 0..MaxPoints }

InitProj ==
    /\ variant = "apf"
    /\ robot \in Robots
    /\ normalize = FALSE
    /\ InitNode
    /\ call = NoCall

\* mask = (Z_0 > 0) & (Z_0 <= proximity_threshold) & (Y >= -0.05), then
\* _update_top_view_and_obstacles(X[mask], Y[mask], Z_0[mask]); shifted, cells
\* and sampled are the locals Z, img_x/real_x/real_z[valid] and
\* sampled_obstacles
CallProject ==
    /\ call = NoCall
    /\ \E pts \in PointClouds :
          LET filtered == MaskPoints(robot, pts)
          IN  /\ call' = [op      |-> "project",
                          points  |-> filtered,
                          shifted |-> [i \in 1..Len(filtered) |->
                                          ShiftDepth(robot, filtered[i][3])],
                          cells   |-> Rasterize(robot, filtered),
                          sampled |-> SampleColumns(Rasterize(robot, filtered)),
                          result  |-> update_top_view_and_obstacles(robot, filtered)]
              /\ obstacle_points' = update_top_view_and_obstacles(robot, filtered)
    /\ UNCHANGED << variant, robot, normalize, now, last_ctx_time,
                    context_queue, spinning, pc, naction,
                    timesteps, waypoint_pub, sampled_actions_pub, viz_pub,
                    nframes, pushed, discarded, obs_frame, last_cb, tick >>

NextProj == CallProject

SpecProj == InitProj /\ [][NextProj]_vars

\* C5: the projector emits at most one obstacle point per sampled column
\* (columns 0, step, 2*step, ... of the grid), and the point emitted for a
\* column has the least shifted forward distance of the in-bounds points
\* rasterized into that column.
C5_NearestPerSampledColumn ==
    call.op = "project" =>
        LET emitted == IF call.result.is_none THEN << >> ELSE call.result.points
        IN  /\ Len(emitted) = Len(call.sampled)
            /\ Len(emitted) <= Cardinality(SampledColumns)
            /\ \A i \in 1..Len(call.sampled) :
                  /\ call.sampled[i].col \in 0..(TopViewW - 1)
                  /\ call.sampled[i].col % SamplingStep = 0
                  /\ \A k \in 1..Len(call.sampled) :
                        k # i => call.sampled[k].col # call.sampled[i].col
                  /\ \E n \in 1..Len(call.cells) :
                        /\ call.cells[n].img_x = call.sampled[i].col
                        /\ emitted[i] = << call.cells[n].real_z, -call.cells[n].real_x >>
                  /\ \A n \in 1..Len(call.cells) :
                        call.cells[n].img_x = call.sampled[i].col =>
                            emitted[i][1] <= call.cells[n].real_z

\* three points fell into one sampled column, the nearest of them neither
\* first nor last, and it is the only one emitted
C5_Witness ==
    /\ call.op = "project"
    /\ Len(call.cells) = 3
    /\ call.cells[1].img_x = call.cells[2].img_x
    /\ call.cells[3].img_x = call.cells[2].img_x
    /\ call.cells[2].real_z < call.cells[1].real_z
    /\ call.cells[2].real_z < call.cells[3].real_z
    /\ ~call.result.is_none
    /\ call.result.points = << << call.cells[2].real_z, -call.cells[2].real_x >> >>

\* C11 (as claimed): for every robot preset and every raw depth that passed
\* the mask, the shifted depth Z = max(Z_0 - safety_margin, epsilon) is no
\* farther than the raw depth Z_0.
C11_ShiftNeverFarther ==
    call.op = "project" =>
        \A i \in 1..Len(call.points) :
            call.shifted[i] <= call.points[i][3]

\* the masked points of a cloud that fall into a sampled column of the grid,
\* as ground points <<forward, lateral>>
Survivors(r, cloud) ==
    { << ShiftDepth(r, cloud[n][3]), -cloud[n][1] >> :
        n \in { k \in 1..Len(cloud) :
                  /\ Mask(r, cloud[k])
                  /\ ValidPixel(ImgX(r, cloud[k][1]),
                                ImgY(r, ShiftDepth(r, cloud[k][3])))
                  /\ ImgX(r, cloud[k][1]) % SamplingStep = 0 } }

\* C12: a successful depth projection replaces the obstacle set with points
\* of that frame only, whatever the set was before; when no point of the
\* frame survives the mask and the rasterization the set becomes empty
\* (None); and a tick that finds the set empty publishes the sampled batch
\* as it is.
C12_LatestFrameReplacesSet ==
    /\ last_cb.kind = "frame_projected" =>
          LET cloud == Cloud(robot, last_cb.cloud)
          IN  /\ \A k \in 1..Len(obstacle_points.points) :
                    obstacle_points.points[k] \in Survivors(robot, cloud)
              /\ (Survivors(robot, cloud) = { }) = NoObstacles(obstacle_points)
    /\ (last_cb.kind = "tick_published" /\ variant = "apf"
            /\ NoObstacles(tick.obstacles)) =>
          /\ tick.batch = tick.raw
          /\ Last(sampled_actions_pub) = SampledActionsMsg(tick.raw)

\* a frame with no surviving point arrived while the set held the points of
\* an earlier frame, and the set is now empty
C12_Witness ==
    /\ last_cb.kind = "frame_projected"
    /\ ~NoObstacles(last_cb.before)
    /\ Survivors(robot, Cloud(robot, last_cb.cloud)) = { }
    /\ obstacle_points = None

\* the repulsive force at step j of a trajectory of the corrector's input
ForceAtStep(traj, j) ==
    compute_repulsive_force(<< traj[j][1] * MmPerUnit, traj[j][2] * MmPerUnit >>,
                            obstacle_points)

\* C13: the force that decides the rotation of a trajectory is the force at
\* one step, the earliest of those of largest magnitude (the zero vector
\* when every step's force is zero), never a sum over the steps; the
\* rotation it gives is applied to every step of the trajectory, and the
\* trajectory is corrected as it would be alone in the batch.
C13_WorstStepDecides ==
    (call.op = "corrector" /\ ~NoObstacles(obstacle_points)) =>
        \A i \in 1..Len(call.input) :
            LET traj  == call.input[i]
                steps == 1..Len(traj)
                d     == call.angle[i]
                force == [j \in steps |-> ForceAtStep(traj, j)]
                mag   == [j \in steps |-> Norm2(force[j])]
            IN  /\ (\A j \in steps : force[j] = << 0, 0 >>)
                       => call.max_force[i] = << 0, 0 >>
                /\ (\E j \in steps : force[j] # << 0, 0 >>)
                       => \E j \in steps :
                             /\ call.max_force[i] = force[j]
                             /\ \A k \in steps : mag[k] <= mag[j]
                             /\ \A k \in 1..(j - 1) : mag[k] < mag[j]
                /\ d = ClipAngle(ArcTan2(call.max_force[i]))
                /\ \A j \in steps :
                      call.result[i][j] =
                          << d[1] * traj[j][1] - d[2] * traj[j][2],
                             d[2] * traj[j][1] + d[1] * traj[j][2],
                             (d[1] * d[1] + d[2] * d[2]) * traj[j][3] >>
                /\ call.result[i] =
                      apply_repulsive_forces_to_trajectories(
                          << traj >>, obstacle_points)[1]

\* two steps of a trajectory meet forces of the same magnitude and
\* different directions; the earlier one decided, the trajectory was
\* rotated, and another trajectory of the batch was rotated differently
C13_Witness ==
    /\ call.op = "corrector"
    /\ ~NoObstacles(obstacle_points)
    /\ \E i \in 1..Len(call.input) :
          /\ \E j1, j2 \in 1..Len(call.input[i]) :
                /\ j1 < j2
                /\ ForceAtStep(call.input[i], j1) # ForceAtStep(call.input[i], j2)
                /\ Norm2(ForceAtStep(call.input[i], j1))
                       = Norm2(ForceAtStep(call.input[i], j2))
                /\ Norm2(ForceAtStep(call.input[i], j1)) > 0
                /\ call.max_force[i] = ForceAtStep(call.input[i], j1)
          /\ call.result[i] # call.input[i]
          /\ \E i2 \in 1..Len(call.input) : call.angle[i2] # call.angle[i]

\* the sum of the first j entries of a trajectory of the corrector's input
\* (entries <<x, y, 1>>), in mm
Accumulated(traj, j) ==
    LET A[k \in 0..j] ==
            IF k = 0 THEN << 0, 0 >>
            ELSE << A[k - 1][1] + traj[k][1] * MmPerUnit,
                    A[k - 1][2] + traj[k][2] * MmPerUnit >>
    IN  A[j]

\* C14 (as claimed): the point at which the corrector evaluates the force of
\* step j of a trajectory is the running sum of the trajectory's entries up
\* to and including j, scaled into the obstacles' unit of length.
C14_ForceAtAccumulatedPosition ==
    (call.op = "corrector" /\ ~NoObstacles(obstacle_points)) =>
        \A i \in 1..Len(call.input) :
            \A j \in 1..Len(call.input[i]) :
                call.pts[i][j] = Accumulated(call.input[i], j)

\* C15: callbacks run one at a time and to completion: from the start of a
\* tick's sampling to its publication no frame callback runs and the
\* obstacle set does not change, and the flag the tick hands to the
\* visualiser is true exactly when the corrector went past its early return
\* and rotated the batch against that same set.
C15_FlagMatchesCorrection ==
    /\ [] ( (last_cb.kind = "tick_published" /\ variant = "apf") =>
              /\ Last(viz_pub).apf = tick.rotated
              /\ tick.obstacles = obstacle_points
              /\ tick.rotated =>
                    \A i \in 1..Len(tick.raw) :
                        tick.batch[i] =
                            RotateTraj(CorrectionAngle(tick.raw[i], tick.obstacles),
                                       tick.raw[i])
              /\ ~tick.rotated => tick.batch = tick.raw )
    /\ [][ (pc = "denoise" \/ pc' = "denoise") =>
              (obstacle_points' = obstacle_points /\ nframes' = nframes) ]_vars

\* a tick found obstacles, rotated the batch and told the visualiser so
C15_Witness ==
    /\ last_cb.kind = "tick_published"
    /\ variant = "apf"
    /\ ~NoObstacles(tick.obstacles)
    /\ Last(viz_pub).apf
    /\ tick.batch # tick.raw

\* C16 (as claimed): publishing leaves the batch as it was: in both
\* variants and for either value of normalize, the batch a tick hands to the
\* visualiser is, element for element, the batch flattened into the
\* sampled-actions message of that tick.
C16_PublishingKeepsBatch ==
    last_cb.kind = "tick_published" =>
        Last(sampled_actions_pub) = SampledActionsMsg(Last(viz_pub).batch)

\* C17: a frame the gate accepts is appended to the window and moves
\* last_ctx_time to now before the depth inference runs: when the callback
\* completes the obstacle set derives from that frame, the newest of the
\* window; when the inference fails the window and last_ctx_time have
\* advanced all the same and the obstacle set is the one of an older frame.
\* After every frame callback that completes, discarded frames included, the
\* obstacle set derives from the newest frame of the window.
C17_AppendBeforeInference ==
    /\ [][ ( /\ variant = "apf"
             /\ nframes' = nframes + 1
             /\ now - last_ctx_time >= CtxDtNs )
           => ( /\ context_queue' # << >>
                /\ Last(context_queue') = nframes + 1
                /\ last_ctx_time' = now
                /\ last_cb'.kind \in { "frame_projected", "depth_failed" }
                /\ last_cb'.kind = "frame_projected" =>
                      obs_frame' = nframes + 1
                /\ last_cb'.kind = "depth_failed" =>
                      /\ obs_frame' = obs_frame
                      /\ obstacle_points' = obstacle_points
                      /\ obs_frame' < nframes + 1 ) ]_vars
    /\ [] ( ( /\ variant = "apf"
              /\ last_cb.kind \in { "frame_projected", "frame_discarded" }
              /\ context_queue # << >> )
            => obs_frame = Last(context_queue) )

\* the inference failed on an accepted frame that followed a projected one:
\* the window ends with the failed frame, the gate moved, and the obstacle
\* set is still the earlier frame's
C17_Witness ==
    /\ last_cb.kind = "depth_failed"
    /\ Len(context_queue) >= 2
    /\ Last(context_queue) = last_cb.frame
    /\ last_ctx_time = now
    /\ obs_frame > 0
    /\ obs_frame < last_cb.frame
    /\ ~NoObstacles(obstacle_points)

=============================================================================
